---- MODULE Spec2Model ----
(***************************************************************************)
(* Model of pid_simulation.py: the PID controller, the rigid-body          *)
(* spacecraft model, the orbit angle, load_errors, simulate, save_results  *)
(* and main.                                                               *)
(*                                                                         *)
(* Numbers.  The program computes with Python floats.  The model computes  *)
(* with exact rationals [n, d] in lowest terms (d > 0): every +, -, *, /   *)
(* and % of the source is the corresponding exact operation, so binary     *)
(* rounding is outside the model.  float() can also produce the non-finite *)
(* values nan, inf and -inf; those appear only as parse results in         *)
(* load_errors.                                                            *)
(***************************************************************************)
EXTENDS Integers, Sequences, FiniteSets, TLC

VARIABLES
    entry,          \* which entry point is exercised: "PID", "Spacecraft", "simulate", "load_errors", "main"
    pc,             \* position of the control flow inside that entry point
    args,           \* the call's parameters: kp, ki, kd, dt, step_days
    pid,            \* the PID objects, one per axis: kp, ki, kd, integral, prev_err
    sc,             \* the Spacecraft object: attitude and ang_vel per axis
    theta,          \* simulate's local theta
    errors,         \* the list of error triples (simulate's input, load_errors' result)
    k,              \* number of samples the for loop of simulate has consumed
    corrections,    \* simulate's local lists
    attitudes,
    orbit_angles,
    exc,            \* the exception that ended the call, or "none"
    rows,           \* the data lines csv.DictReader has read in load_errors
    header,         \* the columns named by the input file's header line
    outfile,        \* the output file: Absent, or written with its data rows
    plt,            \* whether import matplotlib.pyplot succeeds
    stdout,         \* lines printed
    png,            \* whether pid_corrections.png has been saved
    log             \* harness log: each call made, the object before and after it, its result

vars == <<entry, pc, args, pid, sc, theta, errors, k, corrections, attitudes,
          orbit_angles, exc, rows, header, outfile, plt, stdout, png, log>>

----------------------------------------------------------------------------
(* Bounds of the model *)

\* longest error sequence given to simulate
MaxLen == 5
\* most calls of PID.update / Spacecraft.step made by the unit harnesses
MaxCalls == 3
\* most rows in the input file
MaxRows == 2

----------------------------------------------------------------------------
(* Exact rational arithmetic standing for float arithmetic *)

Abs(x) == IF x < 0 THEN -x ELSE x
Min2(a, b) == IF a < b THEN a ELSE b

\* Euclid's algorithm on naturals
gcd[p \in Nat \X Nat] == IF p[2] = 0 THEN p[1] ELSE gcd[<<p[2], p[1] % p[2]>>]

\* the rational n/d in lowest terms, d # 0
lowest[p \in Int \X Int] ==
    LET qg == gcd[<<Abs(p[1]), Abs(p[2])>>]
        qs == IF p[2] < 0 THEN -1 ELSE 1
    IN  [n |-> qs * (p[1] \div qg), d |-> qs * (p[2] \div qg)]

Q(n, d) == lowest[<<n, d>>]

Rat == [n : Int, d : Nat \ {0}]

Z(i) == [n |-> i, d |-> 1]
Zero == Z(0)

radd[p \in Rat \X Rat] ==
    LET x == p[1]
        y == p[2]
        g == gcd[<<x.d, y.d>>]
    IN  Q(x.n * (y.d \div g) + y.n * (x.d \div g), (x.d \div g) * y.d)

RAdd(x, y) == radd[<<x, y>>]

RNeg(x) == [n |-> -x.n, d |-> x.d]

RSub(x, y) == RAdd(x, RNeg(y))

rmul[p \in Rat \X Rat] ==
    LET a == Q(p[1].n, p[2].d)
        b == Q(p[2].n, p[1].d)
    IN  Q(a.n * b.n, a.d * b.d)

RMul(x, y) == rmul[<<x, y>>]

\* x / y for y # Zero
RDiv(x, y) == RMul(x, Q(y.d, y.n))

RLess(x, y) == x.n * y.d < y.n * x.d

\* Python's x % m for m > 0: x - m*floor(x/m), the sign of the divisor
rmod[p \in Rat \X Rat] ==
    LET x == p[1]
        m == p[2]
        f == (x.n * m.d) \div (x.d * m.n)
    IN  RSub(x, RMul(Z(f), m))

RMod(x, m) == rmod[<<x, m>>]

----------------------------------------------------------------------------
(* class PID *)

Axes == {1, 2, 3}      \* RA, DEC, Roll: the positions in every triple

NoValue == [none |-> TRUE]

\* mutant: the integral and derivative gains stored in each other's field
PID_gains_swapped(kp, ki, kd) ==
    [kp |-> kp, ki |-> kd, kd |-> ki, integral |-> Zero, prev_err |-> Zero]

\* PID(kp, ki, kd): the dataclass defaults integral = 0.0, prev_err = 0.0
PID(kp, ki, kd) ==
    [kp |-> kp, ki |-> ki, kd |-> kd, integral |-> Zero, prev_err |-> Zero]

\* mutant: anti-windup, the integral clamped to [-5, 5]
PID_integrate_clamped(integral, err, dt) ==
    LET v == RAdd(integral, RMul(err, dt))
    IN  IF RLess(Z(5), v) THEN Z(5) ELSE IF RLess(v, Z(-5)) THEN Z(-5) ELSE v

\* self.integral += err * dt
PID_integrate(integral, err, dt) == RAdd(integral, RMul(err, dt))

\* derivative = (err - self.prev_err) / dt, for dt # 0
PID_derivative(err, prev_err, dt) == RDiv(RSub(err, prev_err), dt)

\* return self.kp * err + self.ki * self.integral + self.kd * derivative
PID_output(p, err, derivative) ==
    RAdd(RAdd(RMul(p.kp, err), RMul(p.ki, p.integral)), RMul(p.kd, derivative))

\* mutant: prev_err is stored before the derivative is taken
PID_update_stale_derivative(p, err, dt) ==
    LET p1 == [p EXCEPT !.integral = PID_integrate(p.integral, err, dt), !.prev_err = err]
    IN  IF dt = Zero
        THEN [obj |-> p1, ret |-> NoValue, exc |-> "ZeroDivisionError"]
        ELSE [obj |-> p1, ret |-> PID_output(p1, err, PID_derivative(err, p1.prev_err, dt)),
              exc |-> "none"]

\* mutant: a zero dt is guarded, the derivative taken as zero
PID_update_guarded(p, err, dt) ==
    LET p1 == [p EXCEPT !.integral = PID_integrate(p.integral, err, dt)]
        derivative == IF dt = Zero THEN Zero ELSE PID_derivative(err, p1.prev_err, dt)
        p2 == [p1 EXCEPT !.prev_err = err]
    IN  [obj |-> p2, ret |-> PID_output(p2, err, derivative), exc |-> "none"]

\* One call p.update(err, dt): the object afterwards, the value returned and the
\* exception raised.  The integral is stored before the division is attempted;
\* a zero dt raises ZeroDivisionError at the division, before prev_err is set.
PID_update(p, err, dt) ==
    LET p1 == [p EXCEPT !.integral = PID_integrate(p.integral, err, dt)]
    IN  IF dt = Zero
        THEN [obj |-> p1, ret |-> NoValue, exc |-> "ZeroDivisionError"]
        ELSE LET derivative == PID_derivative(err, p1.prev_err, dt)
                 p2 == [p1 EXCEPT !.prev_err = err]
             IN  [obj |-> p2, ret |-> PID_output(p2, err, derivative), exc |-> "none"]

----------------------------------------------------------------------------
(* class Spacecraft *)

\* mass: float = 620.0 and side_length: float = 1.1
mass == Z(620)
side_length == Q(11, 10)

\* __post_init__: i = (1.0 / 6.0) * self.mass * (self.side_length ** 2)
inertia == RMul(RMul(Q(1, 6), mass), RMul(side_length, side_length))

\* Spacecraft(): attitude and ang_vel default to [0.0, 0.0, 0.0]
Spacecraft == [attitude |-> [a \in Axes |-> Zero], ang_vel |-> [a \in Axes |-> Zero]]

\* mutant: the attitude integrates the angular velocity from before the step
Spacecraft_axis_old_velocity(ang_vel, attitude, tau, dt) ==
    [ang_vel |-> RAdd(ang_vel, RMul(RDiv(tau, inertia), dt)),
     attitude |-> RAdd(attitude, RMul(ang_vel, dt))]

\* The body of step's loop for one axis: alpha = tau / I;
\* ang_vel[idx] += alpha * dt; attitude[idx] += ang_vel[idx] * dt
Spacecraft_axis(ang_vel, attitude, tau, dt) ==
    LET alpha == RDiv(tau, inertia)
        w == RAdd(ang_vel, RMul(alpha, dt))
    IN  [ang_vel |-> w, attitude |-> RAdd(attitude, RMul(w, dt))]

\* s.step(torque, dt): enumerate(zip(torque, self.inertia)) visits each axis once
Spacecraft_step(s, torque, dt) ==
    [attitude |-> [a \in Axes |->
                     Spacecraft_axis(s.ang_vel[a], s.attitude[a], torque[a], dt).attitude],
     ang_vel  |-> [a \in Axes |->
                     Spacecraft_axis(s.ang_vel[a], s.attitude[a], torque[a], dt).ang_vel]]

----------------------------------------------------------------------------
(* class Orbit *)

\* period_days: float = 347.0
period_days == Z(347)

\* mean_motion: 360.0 / self.period_days
Orbit_mean_motion == RDiv(Z(360), period_days)

\* mutant: the angle is not wrapped
Orbit_advance_unwrapped(th, step_days) == RAdd(th, RMul(Orbit_mean_motion, step_days))

\* theta = (theta + orbit.mean_motion() * step_days) % 360.0
Orbit_advance(th, step_days) ==
    RMod(RAdd(th, RMul(Orbit_mean_motion, step_days)), Z(360))

----------------------------------------------------------------------------
(* float(): Python's conversion of a CSV field *)

\* A field is a string (Str of a tuple of one-character strings), None (the
\* value csv.DictReader stores for a column a short row does not reach) or
\* NoKey (the header does not name the column, so the row has no such key).
Str(s) == [py |-> "str", s |-> s]
None == [py |-> "None"]
NoKey == [py |-> "no key"]

Digits == {"0", "1", "2", "3", "4", "5", "6", "7", "8", "9"}

DigitVal(c) ==
    CASE c = "0" -> 0 [] c = "1" -> 1 [] c = "2" -> 2 [] c = "3" -> 3 [] c = "4" -> 4
      [] c = "5" -> 5 [] c = "6" -> 6 [] c = "7" -> 7 [] c = "8" -> 8 [] c = "9" -> 9

IsDigit(c) == c \in Digits

RECURSIVE Strip(_)
Strip(s) ==
    IF s = <<>> THEN s
    ELSE IF Head(s) = " " THEN Strip(Tail(s))
    ELSE IF s[Len(s)] = " " THEN Strip(SubSeq(s, 1, Len(s) - 1))
    ELSE s

RECURSIVE DecValue(_)
DecValue(s) == IF s = <<>> THEN 0 ELSE 10 * DecValue(SubSeq(s, 1, Len(s) - 1)) + DigitVal(s[Len(s)])

RECURSIVE Pow10(_)
Pow10(i) == IF i = 0 THEN 1 ELSE 10 * Pow10(i - 1)

ValueError == [exc |-> "ValueError"]
Finite(v) == [exc |-> "none", val |-> v]
NonFinite(w) == [exc |-> "none", val |-> [nonfinite |-> w]]

IsFinite(v) == DOMAIN v = {"n", "d"}

\* float(s) for a string s over the characters space, sign, digits, "." and
\* lower-case letters: surrounding whitespace is ignored, then an optional sign,
\* then nan, inf, infinity or a decimal numeral with at least one digit
\* (exponents and digit-group underscores are not in the alphabet).
float_str(s) ==
    LET t == Strip(s)
        signed == t # <<>> /\ Head(t) \in {"+", "-"}
        neg == signed /\ Head(t) = "-"
        u == IF signed THEN Tail(t) ELSE t
        dots == {i \in 1..Len(u) : u[i] = "."}
        ds == SelectSeq(u, IsDigit)
        frac == IF dots = {} THEN 0 ELSE Len(u) - (CHOOSE i \in dots : TRUE)
        m == DecValue(ds)
    IN  IF u = <<"n", "a", "n">> THEN NonFinite("nan")
        ELSE IF u \in {<<"i", "n", "f">>, <<"i", "n", "f", "i", "n", "i", "t", "y">>}
        THEN NonFinite(IF neg THEN "-inf" ELSE "inf")
        ELSE IF /\ ds # <<>>
                /\ Cardinality(dots) <= 1
                /\ Len(ds) + Cardinality(dots) = Len(u)
        THEN Finite(Q(IF neg THEN -m ELSE m, Pow10(frac)))
        ELSE ValueError

\* float(row[column])
float_field(f) ==
    IF f = NoKey THEN [exc |-> "KeyError"]
    ELSE IF f = None THEN [exc |-> "TypeError"]
    ELSE float_str(f.s)

\* The tuple built in load_errors' try block: the three conversions in order, the
\* first exception raised ending the evaluation
row_tuple(row) ==
    LET r == [c \in Axes |-> float_field(row[c])]
        bad == {c \in Axes : r[c].exc # "none"}
    IN  IF bad = {}
        THEN [exc |-> "none", val |-> [c \in Axes |-> r[c].val]]
        ELSE [exc |-> r[CHOOSE c \in bad : \A b \in bad : c <= b].exc]

----------------------------------------------------------------------------
(* Inputs the model draws from *)

One == Z(1)

\* (kp, ki, kd): main's defaults 1.0, 0.1, 0.05; integral only; proportional only
Gains == { <<One, Q(1, 10), Q(1, 20)>>, <<Zero, One, Zero>>, <<One, Zero, Zero>> }

\* dt, the illegal zero included
DtVals == { One, Q(1, 2), Zero }

\* simulate's default step_days = 0.02778, and steps long enough to wrap the angle
default_step_days == Q(1389, 50000)
StepDays == { default_step_days, Z(100), Z(-50) }

\* error triples (RA, DEC, Roll)
Samples == { <<Z(2), Zero, Zero>>, <<Z(-1), Z(3), Zero>> }

\* error values and stored states for the PID harness
ErrVals == { Z(-1), Zero, Z(2) }
StateVals == { Zero, Q(3, 2) }

\* torque triples for the Spacecraft harness
Torques == { <<One, Zero, Z(-2)>>, <<Q(1, 2), Z(3), Zero>> }

SeqsUpTo(S, n) == UNION { [1..i -> S] : i \in 0..n }

\* Field texts per column.  "nan" and "-inf" are read by float() as numbers.
FieldsRA == { <<"2">>, <<"a", "b", "c">>, <<"n", "a", "n">> }
FieldsDEC == { <<"-", "0", ".", "5">> }
FieldsRoll == { <<" ", "1", ".", "2", "5", " ">>, <<"-", "i", "n", "f">>, <<>> }

\* the header names all three columns, or lacks Roll_error
Headers == { {1, 2, 3}, {1, 2} }

\* data lines with three fields
FullLines(ra, dec, roll) == { <<a, b, c>> : a \in ra, b \in dec, c \in roll }

\* data lines that end early, with one or two fields
ShortLines == { << <<"2">> >>, << <<"a", "b", "c">> >>, << <<"2">>, <<"-", "0", ".", "5">> >> }

\* data lines of the file load_errors is exercised on
LoadLines == FullLines(FieldsRA, FieldsDEC, FieldsRoll) \cup ShortLines

\* data lines of the file main is exercised on: its numeric fields are finite
MainLines ==
    FullLines({<<"2">>, <<"a", "b", "c">>}, FieldsDEC, {<<" ", "1", ".", "2", "5", " ">>})
      \cup ShortLines

\* The dict csv.DictReader yields for a data line under header h: a column the
\* header names gets the line's field at its position, or None (restval) when
\* the line ends before it; a column the header lacks is no key of the dict.
dict_row(h, line) ==
    [c \in Axes |-> IF c \notin h THEN NoKey
                    ELSE IF c <= Len(line) THEN Str(line[c]) ELSE None]

\* the output file before save_results has run
Absent == [written |-> FALSE]

notice == "matplotlib not available; skipping plot generation"

----------------------------------------------------------------------------
(* Initial states, one family per entry point *)

Unused == [unused |-> TRUE]

CallArgs(g, dt, sd) == [kp |-> g[1], ki |-> g[2], kd |-> g[3], dt |-> dt, step_days |-> sd]

Idle ==
    /\ theta = Zero /\ k = 0
    /\ corrections = <<>> /\ attitudes = <<>> /\ orbit_angles = <<>>
    /\ exc = "none" /\ rows = <<>> /\ outfile = Absent
    /\ stdout = <<>> /\ png = FALSE /\ log = <<>>

\* A PID object in any stored state, about to receive update calls
InitPID ==
    /\ entry = "PID" /\ pc = "calls"
    /\ \E g \in Gains : args = CallArgs(g, One, default_step_days)
    /\ \E i \in StateVals, e \in StateVals :
          pid = <<[PID(args.kp, args.ki, args.kd) EXCEPT !.integral = i, !.prev_err = e]>>
    /\ sc = Unused /\ errors = <<>> /\ header = {} /\ plt = "absent"
    /\ Idle

\* Spacecraft(), about to receive step calls
InitSpacecraft ==
    /\ entry = "Spacecraft" /\ pc = "calls"
    /\ args = CallArgs(<<One, Zero, Zero>>, One, default_step_days)
    /\ sc = Spacecraft
    /\ pid = <<>> /\ errors = <<>> /\ header = {} /\ plt = "absent"
    /\ Idle

\* simulate(errors, kp, ki, kd, dt, step_days) at its first line
InitSimulate ==
    /\ entry = "simulate" /\ pc = "sim_enter"
    /\ \E g \in Gains, dt \in DtVals, sd \in StepDays : args = CallArgs(g, dt, sd)
    /\ errors \in SeqsUpTo(Samples, MaxLen)
    /\ pid = <<>> /\ sc = Unused /\ header = {} /\ plt = "absent"
    /\ Idle

\* load_errors(path) with the file opened and the header read
InitLoad ==
    /\ entry = "load_errors" /\ pc = "load_loop"
    /\ args = CallArgs(<<One, Zero, Zero>>, One, default_step_days)
    /\ header \in Headers
    /\ errors = <<>>
    /\ pid = <<>> /\ sc = Unused /\ plt = "absent"
    /\ Idle

\* main() after parse_args, inside load_errors with the header read; simulate is
\* called with its default dt = 1.0 and step_days = 0.02778
InitMain ==
    /\ entry = "main" /\ pc = "load_loop"
    /\ \E g \in Gains : args = CallArgs(g, One, default_step_days)
    /\ header \in Headers
    /\ plt \in {"present", "absent"}
    /\ errors = <<>>
    /\ pid = <<>> /\ sc = Unused
    /\ Idle

----------------------------------------------------------------------------
(* Unit harnesses: calls on one object *)

\* pid.update(err, dt); the caller survives a ZeroDivisionError and may call again
PIDCall ==
    /\ entry = "PID" /\ Len(log) < MaxCalls
    /\ \E err \in ErrVals, dt \in DtVals :
          LET r == PID_update(pid[1], err, dt)
          IN  /\ pid' = <<r.obj>>
              /\ log' = Append(log, [err |-> err, dt |-> dt, ret |-> r.ret, exc |-> r.exc,
                                      before |-> pid[1], after |-> r.obj])
    /\ UNCHANGED <<entry, pc, args, sc, theta, errors, k, corrections, attitudes,
                   orbit_angles, exc, rows, header, outfile, plt, stdout, png>>

\* sc.step(torque, dt)
SpacecraftCall ==
    /\ entry = "Spacecraft" /\ Len(log) < MaxCalls
    /\ \E torque \in Torques, dt \in DtVals :
          /\ sc' = Spacecraft_step(sc, torque, dt)
          /\ log' = Append(log, [torque |-> torque, dt |-> dt, before |-> sc,
                                  after |-> Spacecraft_step(sc, torque, dt)])
    /\ UNCHANGED <<entry, pc, args, pid, theta, errors, k, corrections, attitudes,
                   orbit_angles, exc, rows, header, outfile, plt, stdout, png>>

----------------------------------------------------------------------------
(* load_errors *)

\* the data lines the file can hold, for the entry point exercised
FileLines == IF entry = "main" THEN MainLines ELSE LoadLines

\* where control goes when load_errors returns
after_load == IF entry = "main" THEN "sim_enter" ELSE "returned"

\* One iteration of `for row in reader`: the row is appended when its three
\* fields convert; ValueError and KeyError are caught and the row skipped; any
\* other exception leaves load_errors.
LoadRow ==
    /\ pc = "load_loop" /\ Len(rows) < MaxRows
    /\ \E line \in FileLines :
          LET t == row_tuple(dict_row(header, line))
          IN  /\ rows' = Append(rows, line)
              /\ IF t.exc = "none"
                 THEN errors' = Append(errors, t.val) /\ UNCHANGED <<pc, exc>>
                 ELSE IF t.exc \in {"ValueError", "KeyError"}
                 THEN UNCHANGED <<errors, pc, exc>>
                 ELSE /\ exc' = t.exc
                      /\ pc' = "raised"
                      /\ UNCHANGED errors
    /\ UNCHANGED <<entry, args, pid, sc, theta, k, corrections, attitudes,
                   orbit_angles, header, outfile, plt, stdout, png, log>>

\* the reader is exhausted: return errors
LoadReturn ==
    /\ pc = "load_loop"
    /\ pc' = after_load
    /\ UNCHANGED <<entry, args, pid, sc, theta, errors, k, corrections, attitudes,
                   orbit_angles, exc, rows, header, outfile, plt, stdout, png, log>>

----------------------------------------------------------------------------
(* simulate *)

\* lines 96-105: the three controllers, the spacecraft, the empty lists, theta
SimEnter ==
    /\ pc = "sim_enter"
    /\ pid' = [a \in Axes |-> PID(args.kp, args.ki, args.kd)]
    /\ sc' = Spacecraft
    /\ corrections' = <<>> /\ attitudes' = <<>> /\ orbit_angles' = <<>>
    /\ theta' = Zero
    /\ k' = 0
    /\ pc' = "sim_loop"
    /\ UNCHANGED <<entry, args, errors, exc, rows, header, outfile, plt, stdout, png, log>>

\* mutant: every axis is fed to the RA controller
controller_shared(a) == 1

\* the controller that receives the error of axis a
controller(a) == a

\* mutant: main probes for matplotlib before it saves, and its return skips the save
after_simulate_probe_first == IF entry = "main" THEN "probe" ELSE "returned"

\* where control goes when simulate returns
after_simulate == IF entry = "main" THEN "save" ELSE "returned"

\* One iteration of `for e_ra, e_dec, e_roll in errors`.  The torque tuple is
\* built left to right; the first update that raises ends simulate, the
\* controllers before it having been updated, those after it not called.
SimStep ==
    /\ pc = "sim_loop" /\ k < Len(errors)
    /\ LET e == errors[k + 1]
           u == [a \in Axes |-> PID_update(pid[controller(a)], e[a], args.dt)]
           failing == {a \in Axes : u[a].exc # "none"}
       IN  IF failing = {}
           THEN LET torque == [a \in Axes |-> u[a].ret]
                    sc1 == Spacecraft_step(sc, torque, args.dt)
                    th1 == Orbit_advance(theta, args.step_days)
                IN  /\ pid' = [a \in Axes |-> u[a].obj]
                    /\ sc' = sc1
                    /\ theta' = th1
                    /\ corrections' = Append(corrections, torque)
                    /\ attitudes' = Append(attitudes, sc1.attitude)
                    /\ orbit_angles' = Append(orbit_angles, th1)
                    /\ k' = k + 1
                    /\ UNCHANGED <<pc, exc>>
           ELSE LET first == CHOOSE a \in failing : \A b \in failing : a <= b
                IN  /\ pid' = [a \in Axes |-> IF a <= first THEN u[a].obj ELSE pid[a]]
                    /\ exc' = u[first].exc
                    /\ pc' = "raised"
                    /\ UNCHANGED <<sc, theta, corrections, attitudes, orbit_angles, k>>
    /\ UNCHANGED <<entry, args, errors, rows, header, outfile, plt, stdout, png, log>>

\* mutant: the return statement sits inside the loop body
SimReturn_in_loop ==
    /\ pc = "sim_loop" /\ k >= Min2(1, Len(errors))
    /\ pc' = after_simulate
    /\ UNCHANGED <<entry, args, pid, sc, theta, errors, k, corrections, attitudes,
                   orbit_angles, exc, rows, header, outfile, plt, stdout, png, log>>

\* the loop is exhausted: return corrections, attitudes, orbit_angles
SimReturn ==
    /\ pc = "sim_loop" /\ k = Len(errors)
    /\ pc' = after_simulate
    /\ UNCHANGED <<entry, args, pid, sc, theta, errors, k, corrections, attitudes,
                   orbit_angles, exc, rows, header, outfile, plt, stdout, png, log>>

----------------------------------------------------------------------------
(* save_results and the rest of main *)

\* the data rows save_results writes: enumerate(zip(corr, attitudes, orbits))
save_rows(corr, att, orb) ==
    [i \in 1..Min2(Len(corr), Min2(Len(att), Len(orb))) |->
        [step |-> i - 1, c |-> corr[i], a |-> att[i], o |-> orb[i]]]

SaveResults ==
    /\ pc = "save"
    /\ outfile' = [written |-> TRUE, rows |-> save_rows(corrections, attitudes, orbit_angles)]
    /\ pc' = "probe"
    /\ UNCHANGED <<entry, args, pid, sc, theta, errors, k, corrections, attitudes,
                   orbit_angles, exc, rows, header, plt, stdout, png, log>>

\* try: import matplotlib.pyplot / except Exception: print(...); return
ProbePlot ==
    /\ pc = "probe"
    /\ IF plt = "present"
       THEN pc' = "plot" /\ UNCHANGED stdout
       ELSE pc' = "done" /\ stdout' = Append(stdout, notice)
    /\ UNCHANGED <<entry, args, pid, sc, theta, errors, k, corrections, attitudes,
                   orbit_angles, exc, rows, header, outfile, plt, png, log>>

\* lines 173-183: draw the three correction series and save the figure
PlotSave ==
    /\ pc = "plot"
    /\ png' = TRUE
    /\ pc' = "done"
    /\ UNCHANGED <<entry, args, pid, sc, theta, errors, k, corrections, attitudes,
                   orbit_angles, exc, rows, header, outfile, plt, stdout, log>>

----------------------------------------------------------------------------
(* Specifications *)

NextPID == PIDCall
NextSpacecraft == SpacecraftCall
NextSimulate == SimEnter \/ SimStep \/ SimReturn
NextLoad == LoadRow \/ LoadReturn
NextMain == LoadRow \/ LoadReturn \/ SimEnter \/ SimStep \/ SimReturn
               \/ SaveResults \/ ProbePlot \/ PlotSave

SpecPID == InitPID /\ [][NextPID]_vars
SpecSpacecraft == InitSpacecraft /\ [][NextSpacecraft]_vars
SpecSimulate == InitSimulate /\ [][NextSimulate]_vars
SpecLoad == InitLoad /\ [][NextLoad]_vars
SpecMain == InitMain /\ [][NextMain]_vars

\* PID.update on its own and inside simulate
SpecZeroDt == (InitPID \/ InitSimulate) /\ [][NextPID \/ NextSimulate]_vars

Init == InitPID \/ InitSpacecraft \/ InitSimulate \/ InitLoad \/ InitMain
Next == NextPID \/ NextSpacecraft \/ NextMain
Spec == Init /\ [][Next]_vars

----------------------------------------------------------------------------
(* Properties *)

RInt(i, x) == RMul(Z(i), x)
RLeq(x, y) == ~RLess(y, x)

\* C1: every PID.update(err, dt) with dt # 0, from any stored state, leaves
\* integral' = integral + err*dt and prev_err' = err, keeps kp, ki, kd, and returns
\* kp*err + ki*integral' + kd*(err - prev_err)/dt with prev_err as it was before.
C1_UpdateContract ==
    entry = "PID" =>
      \A i \in 1..Len(log) :
        LET c == log[i]
            p == c.before
            q == c.after
        IN  c.dt # Zero =>
              /\ c.exc = "none"
              /\ q.integral = RAdd(p.integral, RMul(c.err, c.dt))
              /\ q.prev_err = c.err
              /\ q.kp = p.kp /\ q.ki = p.ki /\ q.kd = p.kd
              /\ c.ret = RAdd(RAdd(RMul(p.kp, c.err), RMul(p.ki, q.integral)),
                              RMul(p.kd, RDiv(RSub(c.err, p.prev_err), c.dt)))
              /\ (i = Len(log) => pid[1] = q)

\* a call with dt = 1/2 on a controller with all three gains nonzero, a nonzero
\* integral and a previous error different from the new one
C1_Witness ==
    /\ entry = "PID" /\ Len(log) >= 2
    /\ log[2].dt = Q(1, 2) /\ log[2].err = Z(2)
    /\ log[2].before.prev_err = Z(-1) /\ log[2].before.integral # Zero
    /\ log[2].before.ki # Zero /\ log[2].before.kd # Zero
    /\ log[2].ret # NoValue

\* C2: the three controllers simulate creates start with integral = 0 and
\* prev_err = 0 and the gains given, so the first correction of each axis is
\* kp*e + ki*e*dt + kd*e/dt for that axis's first error e.
C2_FirstUpdate ==
    entry = "simulate" /\ pc \in {"sim_loop", "returned", "raised"} =>
      /\ k = 0 /\ exc = "none" =>
           \A a \in Axes : pid[a] = [kp |-> args.kp, ki |-> args.ki, kd |-> args.kd,
                                     integral |-> Zero, prev_err |-> Zero]
      /\ k >= 1 =>
           \A a \in Axes :
             LET e == errors[1][a]
             IN  corrections[1][a] =
                   RAdd(RAdd(RMul(args.kp, e), RMul(args.ki, RMul(e, args.dt))),
                        RMul(args.kd, RDiv(e, args.dt)))

\* a first step with dt = 1/2 and all three gains nonzero on a nonzero error
C2_Witness ==
    /\ entry = "simulate" /\ k = 1
    /\ args.dt = Q(1, 2) /\ args.ki # Zero /\ args.kd # Zero
    /\ errors[1][2] = Z(3)
    /\ corrections[1][2] = RAdd(RAdd(Z(3), Q(3, 20)), Q(3, 10))

\* the errors of axis a are the same at steps 1..n
ConstantErrors(a, n) == \A i \in 1..n : errors[i][a] = errors[1][a]

\* C3: a controller started from zero and fed the same error e with the same
\* nonzero dt has integral n*e*dt after n calls, for every n (no clamp, no
\* reset); with kp = 0, ki = 1, kd = 0 the n-th call returns n*e*dt.
C3_LinearIntegral ==
    entry = "simulate" /\ pc \in {"sim_loop", "returned"} =>
      \A a \in Axes :
        /\ (k >= 1 /\ ConstantErrors(a, k)) =>
              pid[a].integral = RInt(k, RMul(errors[1][a], args.dt))
        /\ \A n \in 1..k :
              (ConstantErrors(a, n) /\ args.kp = Zero /\ args.ki = One /\ args.kd = Zero) =>
                 corrections[n][a] = RInt(n, RMul(errors[1][a], args.dt))

\* e = 2, dt = 1, kp = 0, ki = 1, kd = 0: the fifth call returns 10
C3_Witness ==
    /\ entry = "simulate" /\ k = 5
    /\ args.dt = One /\ args.kp = Zero /\ args.ki = One /\ args.kd = Zero
    /\ ConstantErrors(1, 5) /\ errors[1][1] = Z(2)
    /\ corrections[5][1] = Z(10)
    /\ pid[1].integral = Z(10)

\* One axis on its own: AxisRun(es, n)[i] is the state of a controller and of
\* one spacecraft axis after the first i <= n errors of sequence es, with the
\* i-th correction.
AxisStart ==
    [pid |-> PID(args.kp, args.ki, args.kd), ang_vel |-> Zero, attitude |-> Zero,
     corr |-> NoValue]

AxisStep(s, e) ==
    LET u == PID_update(s.pid, e, args.dt)
        m == Spacecraft_axis(s.ang_vel, s.attitude, u.ret, args.dt)
    IN  [pid |-> u.obj, ang_vel |-> m.ang_vel, attitude |-> m.attitude, corr |-> u.ret]

RECURSIVE AxisRun(_, _)
AxisRun(es, n) ==
    IF n = 0 THEN <<>>
    ELSE CHOOSE r \in { Append(pv, AxisStep(IF pv = <<>> THEN AxisStart ELSE pv[Len(pv)], es[n]))
                        : pv \in {AxisRun(es, n - 1)} } : TRUE

AxisErrors(a) == [i \in 1..Len(errors) |-> errors[i][a]]

\* C4: the correction and attitude recorded for an axis at step n are those of
\* that axis run alone on its own errors 1..n; an axis whose errors are all zero
\* has zero correction, angular velocity and attitude at every step.
C4_AxisIndependence ==
    entry = "simulate" /\ pc \in {"sim_loop", "returned"} =>
      \A a \in Axes :
        /\ \E r \in {AxisRun(AxisErrors(a), k)} :
              \A n \in 1..k :
                 corrections[n][a] = r[n].corr /\ attitudes[n][a] = r[n].attitude
        /\ (\A i \in 1..k : errors[i][a] = Zero) =>
              /\ \A i \in 1..k : corrections[i][a] = Zero /\ attitudes[i][a] = Zero
              /\ sc.ang_vel[a] = Zero /\ sc.attitude[a] = Zero

\* three steps in which RA and DEC have had nonzero errors and corrections while
\* Roll's errors were all zero, and DEC's first error was zero while RA's was not
C4_Witness ==
    /\ entry = "simulate" /\ k = 3
    /\ args.ki # Zero /\ args.kd # Zero
    /\ errors[1] = <<Z(2), Zero, Zero>> /\ errors[2] = <<Z(-1), Z(3), Zero>>
    /\ corrections[1][1] # Zero /\ corrections[1][2] = Zero
    /\ corrections[3][2] # Zero /\ corrections[3][3] = Zero
    /\ attitudes[3][1] # Zero /\ attitudes[3][3] = Zero

\* the invariant part of C5
C5_Lengths ==
    entry = "simulate" /\ pc \in {"sim_loop", "returned", "raised"} =>
      /\ Len(corrections) = k /\ Len(attitudes) = k /\ Len(orbit_angles) = k
      /\ k <= Len(errors)
      /\ args.dt # Zero => exc = "none" /\ pc # "raised"
      /\ pc = "returned" => k = Len(errors)
      /\ (args.kp = One /\ args.ki = Zero /\ args.kd = Zero) =>
            \A i \in 1..k : \A a \in Axes : corrections[i][a] = errors[i][a]

\* C5: for nonzero dt simulate terminates and returns three sequences as long as
\* the input; after k samples each sequence holds k records, the i-th made from
\* the i-th sample (under pure proportional gains the i-th correction is the i-th
\* error triple); an empty input gives three empty sequences.  Termination: every
\* pass through the loop consumes one of the finitely many samples and adds one
\* record, and once none is left simulate returns.
C5_OneRecordPerSample ==
    /\ []C5_Lengths
    /\ []((entry = "simulate" /\ pc = "sim_loop" /\ k = Len(errors)) => ENABLED SimReturn)
    /\ [][(entry = "simulate" /\ pc = "sim_loop" /\ args.dt # Zero) =>
            \/ pc' = "sim_loop" /\ k' = k + 1 /\ k' <= Len(errors)
                 /\ Len(corrections') = Len(corrections) + 1
            \/ pc' = "returned" /\ k = Len(errors)
                 /\ UNCHANGED <<corrections, attitudes, orbit_angles>>]_vars

\* a returned run over five samples under pure proportional gains
C5_Witness ==
    /\ entry = "simulate" /\ pc = "returned"
    /\ Len(errors) = 5 /\ Len(corrections) = 5 /\ Len(attitudes) = 5
    /\ Len(orbit_angles) = 5
    /\ errors[4] # errors[5] /\ args.kp = One /\ args.ki = Zero
    /\ corrections[5] = errors[5] /\ corrections[4] = errors[4]

\* C6: theta starts at 0 and each step makes it (theta + (360/period_days) *
\* step_days) mod 360, so the n-th recorded angle is (n * (360/period_days) *
\* step_days) mod 360 and lies in [0, 360), whatever the errors and gains.
C6_OrbitAngle ==
    entry = "simulate" =>
      /\ pc = "sim_loop" /\ k = 0 => theta = Zero
      /\ \A n \in 1..Len(orbit_angles) :
            /\ orbit_angles[n] =
                 RMod(RInt(n, RMul(RDiv(Z(360), Z(347)), args.step_days)), Z(360))
            /\ RLeq(Zero, orbit_angles[n]) /\ RLess(orbit_angles[n], Z(360))
            /\ n = Len(orbit_angles) => theta = orbit_angles[n]

\* the angle has wrapped past 360: 100-day steps, fourth angle 414.98... - 360
C6_Witness ==
    /\ entry = "simulate" /\ Len(orbit_angles) = 4
    /\ args.step_days = Z(100)
    /\ RLess(orbit_angles[4], orbit_angles[3])
    /\ orbit_angles[4] = RSub(Q(144000, 347), Z(360))

\* the rows kept from a file: those whose three fields are present and read as
\* finite numbers, as triples of their values, in file order
RECURSIVE FiniteRows(_)
FiniteRows(rs) ==
    IF rs = <<>> THEN <<>>
    ELSE LET row == dict_row(header, rs[Len(rs)])
             f == [c \in Axes |-> float_field(row[c])]
             ok == \A c \in Axes : f[c].exc = "none" /\ IsFinite(f[c].val)
             rest == FiniteRows(SubSeq(rs, 1, Len(rs) - 1))
         IN  IF ok THEN Append(rest, [c \in Axes |-> f[c].val]) ELSE rest

\* C7: load_errors keeps exactly the rows whose three fields parse as finite
\* numbers, in order, and drops every other row (missing field, non-numeric,
\* non-finite) without failing the run.
C7_KeepsFiniteRows ==
    entry = "load_errors" => exc = "none" /\ errors = FiniteRows(rows)

\* C8: save_results has written the whole file before the plotting capability
\* is probed and nothing after it touches the file, so the rows written are the
\* same with and without the capability; without it the run prints the notice
\* and ends normally, raising nothing.
C8_FileBeforePlot ==
    entry = "main" =>
      /\ pc \in {"probe", "plot", "done"} =>
            /\ outfile = [written |-> TRUE,
                          rows |-> save_rows(corrections, attitudes, orbit_angles)]
            /\ Len(outfile.rows) = Len(errors)
            /\ \A i \in 1..Len(errors) : outfile.rows[i].step = i - 1
      /\ pc \in {"load_loop", "sim_enter", "sim_loop", "save"} =>
            outfile = Absent /\ stdout = <<>> /\ png = FALSE
      /\ (pc = "done" /\ plt = "absent") =>
            stdout = <<notice>> /\ exc = "none" /\ png = FALSE
      /\ (pc = "done" /\ plt = "present") => stdout = <<>> /\ exc = "none" /\ png = TRUE
      /\ pc = "raised" => exc = "TypeError" /\ outfile = Absent

\* a finished run without the plotting capability that wrote two rows
C8_Witness ==
    /\ entry = "main" /\ pc = "done" /\ plt = "absent"
    /\ outfile.written /\ Len(outfile.rows) = 2
    /\ outfile.rows[2].c[1] # Zero
    /\ stdout = <<notice>>

\* the inertia the claim names: mass * side_length^2 / 6 = 620 * 1.21 / 6
C9_I == Q(3751, 30)

SameCalls(n) == \A i \in 1..n : log[i].torque = log[1].torque /\ log[i].dt = log[1].dt

\* C9: step updates each axis on its own with I = mass*side_length^2/6:
\* ang_vel' = ang_vel + (torque/I)*dt, then attitude' = attitude + ang_vel'*dt,
\* unbounded and unwrapped; from the zero state under constant torque tau and
\* constant dt, after n steps ang_vel = n*tau*dt/I and
\* attitude = (tau*dt^2/I) * n*(n+1)/2.
C9_StepIntegration ==
    entry = "Spacecraft" =>
      \A i \in 1..Len(log) :
        LET c == log[i]
        IN  /\ \A a \in Axes :
                 /\ c.after.ang_vel[a] =
                      RAdd(c.before.ang_vel[a], RMul(RDiv(c.torque[a], C9_I), c.dt))
                 /\ c.after.attitude[a] =
                      RAdd(c.before.attitude[a], RMul(c.after.ang_vel[a], c.dt))
            /\ (i = Len(log) => sc = c.after)
            /\ (i = 1 => c.before = Spacecraft)
            /\ SameCalls(i) =>
                 \A a \in Axes :
                   /\ c.after.ang_vel[a] = RDiv(RInt(i, RMul(c.torque[a], c.dt)), C9_I)
                   /\ c.after.attitude[a] =
                        RMul(RDiv(RMul(c.torque[a], RMul(c.dt, c.dt)), C9_I),
                             Q(i * (i + 1), 2))

\* three steps of the same torque with dt = 1/2, the attitude past its closed form
\* for two steps
C9_Witness ==
    /\ entry = "Spacecraft" /\ Len(log) = 3 /\ SameCalls(3)
    /\ log[1].dt = Q(1, 2) /\ log[1].torque[2] = Z(3)
    /\ sc.ang_vel[2] = RDiv(Q(9, 2), C9_I)
    /\ sc.attitude[2] = RMul(RDiv(Q(3, 4), C9_I), Z(6))
    /\ sc.attitude[3] = Zero /\ sc.attitude[1] # Zero

\* what C10 says of a failing PID.update(err, 0)
C10_FailingUpdate ==
    entry = "PID" =>
      \A i \in 1..Len(log) :
        log[i].dt = Zero =>
          /\ log[i].exc = "ZeroDivisionError" /\ log[i].ret = NoValue
          /\ log[i].after.integral = log[i].before.integral
          /\ log[i].after.prev_err = log[i].before.prev_err

\* what C10 says of simulate with dt = 0 once it has ended
C10_SimulateRaises ==
    (entry = "simulate" /\ args.dt = Zero) =>
      /\ pc # "returned"
      /\ pc = "raised" =>
            /\ exc = "ZeroDivisionError"
            /\ corrections = <<>> /\ attitudes = <<>> /\ orbit_angles = <<>>
            /\ \A a \in Axes : pid[a].integral = Zero /\ pid[a].prev_err = Zero
      /\ pc = "sim_loop" => exc = "none" /\ k = 0

\* C10 as stated: with dt = 0 simulate ends in a division-by-zero error for every
\* error sequence and returns nothing, and the failing update returns no
\* correction and leaves integral and prev_err as they were.
C10_ZeroDtNeverAccepted == C10_FailingUpdate /\ C10_SimulateRaises

\* C10 amended: the same for every nonempty error sequence; on the empty sequence
\* simulate makes no update call and returns three empty sequences.
C10_ZeroDtNonempty ==
    /\ C10_FailingUpdate
    /\ Len(errors) >= 1 => C10_SimulateRaises
    /\ (entry = "simulate" /\ args.dt = Zero /\ Len(errors) = 0 /\ pc = "returned") =>
          exc = "none" /\ corrections = <<>> /\ attitudes = <<>> /\ orbit_angles = <<>>

\* simulate ended by the division by zero on a nonempty input
C10_Witness ==
    /\ entry = "simulate" /\ args.dt = Zero /\ Len(errors) = 2
    /\ pc = "raised" /\ exc = "ZeroDivisionError"
    /\ errors[1][1] = Z(2) /\ args.ki # Zero

====
